---------------------------- MODULE Spec2Model ----------------------------
(***************************************************************************)
(* Model of check_http_json.py: the JSON path resolver (JsonHelper), the   *)
(* rule engine (JsonRuleProcessor), the unit scaling (TypeHelper) and the  *)
(* severity aggregation (NagiosHelper).                                    *)
(*                                                                         *)
(* Python strings are sequences of one-character strings, 0-based indices  *)
(* are kept as in the source and translated at the sequence access.  A     *)
(* JSON value is a tagged record; every tag has its own field name:        *)
(*   [t |-> "null"]                 None                                   *)
(*   [t |-> "bool", b |-> TRUE]     True / False                           *)
(*   [t |-> "int",  n |-> 5]        an integer                             *)
(*   [t |-> "real", x |-> 25]       a float with one decimal, in tenths    *)
(*   [t |-> "str",  s |-> <<..>>]   a string                               *)
(*   [t |-> "map",  m |-> <<..>>]   a dict: sequence of <<key, value>>     *)
(*   [t |-> "list", l |-> <<..>>]   a list                                 *)
(*   [t |-> "not_found"]            the tuple (None, 'not_found')          *)
(*   [t |-> "error", e |-> "..."]   a raised exception, by class name      *)
(***************************************************************************)
EXTENDS Integers, Sequences, FiniteSets, TLC

VARIABLES
    data,         \* JsonHelper.data / JsonRuleProcessor.data: the parsed JSON
    separator,    \* JsonHelper.separator
    field_type,   \* rules.field_type
    rules,        \* the seven rule lists of the argparse namespace
    nagios,       \* the NagiosHelper instance (its five texts)
    key,          \* argument of the call under way (a path or a range)
    given,        \* the parts the rule strings or the path were written from
    result,       \* value returned by the call under way
    pc            \* position of the caller

vars == <<data, separator, field_type, rules, nagios, key, given, result, pc>>

---------------------------------------------------------------------------
(* Python built-ins used by the source *)

Min(S) == CHOOSE x \in S : \A y \in S : x <= y

\* s[a:b] with Python's handling of negative and out-of-range indices
Slice(s, a, b) ==
    LET n  == Len(s)
        a1 == IF a < 0 THEN (IF a + n < 0 THEN 0 ELSE a + n) ELSE (IF a > n THEN n ELSE a)
        b1 == IF b < 0 THEN (IF b + n < 0 THEN 0 ELSE b + n) ELSE (IF b > n THEN n ELSE b)
    IN  IF a1 >= b1 THEN <<>> ELSE SubSeq(s, a1 + 1, b1)

\* s[a:]
SliceFrom(s, a) == Slice(s, a, Len(s))

\* s.find(sub): lowest 0-based index of sub in s, or -1
Find(s, sub) ==
    LET hits == {i \in 0..(Len(s) - Len(sub)) : SubSeq(s, i + 1, i + Len(sub)) = sub}
    IN  IF hits = {} THEN -1 ELSE Min(hits)

\* s.split(ch): the pieces of s between the occurrences of character ch
RECURSIVE Split(_, _)
Split(s, ch) ==
    LET i == Find(s, <<ch>>)
    IN  IF i = -1 THEN <<s>>
        ELSE <<Slice(s, 0, i)>> \o Split(SliceFrom(s, i + 1), ch)

\* s.split(ch, 1)
Split1(s, ch) ==
    LET i == Find(s, <<ch>>)
    IN  IF i = -1 THEN <<s>> ELSE <<Slice(s, 0, i), SliceFrom(s, i + 1)>>

Digits == <<"0", "1", "2", "3", "4", "5", "6", "7", "8", "9">>

IsDigit(c) == \E d \in 1..10 : Digits[d] = c

DigitVal(c) == (CHOOSE d \in 1..10 : Digits[d] = c) - 1

\* str.isdecimal(): non-empty and decimal digits only
isdecimal(s) == Len(s) > 0 /\ \A i \in 1..Len(s) : IsDigit(s[i])

RECURSIVE DigitsVal(_)
DigitsVal(s) ==
    IF s = <<>> THEN 0 ELSE 10 * DigitsVal(SubSeq(s, 1, Len(s) - 1)) + DigitVal(s[Len(s)])

RECURSIVE NatToStr(_)
NatToStr(n) == IF n < 10 THEN <<Digits[n + 1]>> ELSE NatToStr(n \div 10) \o <<Digits[(n % 10) + 1]>>

Abs(n) == IF n < 0 THEN -n ELSE n

\* str(n) of an int
IntToStr(n) == IF n < 0 THEN <<"-">> \o NatToStr(-n) ELSE NatToStr(n)

---------------------------------------------------------------------------
(* JSON values *)

JNull        == [t |-> "null"]
JBool(val)   == [t |-> "bool", b |-> val]
JInt(val)    == [t |-> "int", n |-> val]
JReal(val)   == [t |-> "real", x |-> val]
JStr(val)    == [t |-> "str", s |-> val]
JMap(val)    == [t |-> "map", m |-> val]
JList(val)   == [t |-> "list", l |-> val]
NotFound     == [t |-> "not_found"]
Raise(exc)   == [t |-> "error", e |-> exc]

IsError(val) == val.t = "error"

\* a statement and the statements after it: an exception raised by the first
\* ends the call, otherwise the rest runs on its value
Try(x, rest(_)) == IF IsError(x) THEN x ELSE rest(x)

\* a local variable: the rest runs on the value assigned
Let(x, rest(_)) == rest(x)

\* truth value of a JSON value, as tested by `if temp_data:`
Truthy(x) ==
    CASE x.t = "null" -> FALSE
      [] x.t = "bool" -> x.b
      [] x.t = "int"  -> x.n # 0
      [] x.t = "real" -> x.x # 0
      [] x.t = "str"  -> x.s # <<>>
      [] x.t = "map"  -> x.m # <<>>
      [] x.t = "list" -> x.l # <<>>
      [] OTHER        -> TRUE

HasKey(m, k) == \E i \in 1..Len(m) : m[i][1] = k

Lookup(m, k) == m[CHOOSE i \in 1..Len(m) : m[i][1] = k][2]

\* `k in x` for a string k: JBool(..) or the TypeError of a non-container
In(k, x) ==
    CASE x.t = "map"  -> JBool(HasKey(x.m, k))
      [] x.t = "list" -> JBool(\E i \in 1..Len(x.l) : x.l[i] = JStr(k))
      [] x.t = "str"  -> JBool(Find(x.s, k) # -1)
      [] OTHER        -> Raise("TypeError")

\* x[k] for a string k
Subscript(x, k) ==
    CASE x.t = "map"  -> IF HasKey(x.m, k) THEN Lookup(x.m, k) ELSE Raise("KeyError")
      [] OTHER        -> Raise("TypeError")

\* x[i] for an int i >= 0 (a JSON dict has string keys only)
Item(x, i) ==
    CASE x.t = "list" -> IF i < Len(x.l) THEN x.l[i + 1] ELSE Raise("IndexError")
      [] x.t = "str"  -> IF i < Len(x.s) THEN JStr(<<x.s[i + 1]>>) ELSE Raise("IndexError")
      [] x.t = "map"  -> Raise("KeyError")
      [] OTHER        -> Raise("TypeError")

\* len(x): JInt(..) or the TypeError of an unsized value
PyLen(x) ==
    CASE x.t = "list" -> JInt(Len(x.l))
      [] x.t = "str"  -> JInt(Len(x.s))
      [] x.t = "map"  -> JInt(Len(x.m))
      [] OTHER        -> Raise("TypeError")

RECURSIVE Join(_, _)
Join(parts, glue) ==
    IF parts = <<>> THEN <<>>
    ELSE IF Len(parts) = 1 THEN parts[1]
    ELSE parts[1] \o glue \o Join(Tail(parts), glue)

\* repr(x) and str(x); they differ on a string only
RECURSIVE Repr(_)
Repr(x) ==
    CASE x.t = "null" -> <<"N", "o", "n", "e">>
      [] x.t = "bool" -> IF x.b THEN <<"T", "r", "u", "e">> ELSE <<"F", "a", "l", "s", "e">>
      [] x.t = "int"  -> IntToStr(x.n)
      [] x.t = "real" -> (IF x.x < 0 THEN <<"-">> ELSE <<>>) \o NatToStr(Abs(x.x) \div 10)
                             \o <<".">> \o NatToStr(Abs(x.x) % 10)
      [] x.t = "str"  -> <<"'">> \o x.s \o <<"'">>
      [] x.t = "list" -> <<"[">> \o Join([i \in 1..Len(x.l) |-> Repr(x.l[i])], <<",", " ">>) \o <<"]">>
      [] x.t = "map"  -> <<"{">> \o Join([i \in 1..Len(x.m) |->
                             Repr(JStr(x.m[i][1])) \o <<":", " ">> \o Repr(x.m[i][2])], <<",", " ">>) \o <<"}">>
      [] OTHER        -> <<"(", "N", "o", "n", "e", ",", " ", "'", "n", "o", "t", "_",
                           "f", "o", "u", "n", "d", "'", ")">>

PyStr(x) == IF x.t = "str" THEN x.s ELSE Repr(x)

---------------------------------------------------------------------------
(* base64.b64decode(v).decode() *)

\* the base64 alphabet; the position of a character, less one, is its value
B64Chars ==
    <<"A", "B", "C", "D", "E", "F", "G", "H", "I", "J", "K", "L", "M", "N", "O", "P",
      "Q", "R", "S", "T", "U", "V", "W", "X", "Y", "Z", "a", "b", "c", "d", "e", "f",
      "g", "h", "i", "j", "k", "l", "m", "n", "o", "p", "q", "r", "s", "t", "u", "v",
      "w", "x", "y", "z", "0", "1", "2", "3", "4", "5", "6", "7", "8", "9", "+", "/">>

\* chr(32) .. chr(126); chr(96), which a TLA+ string cannot hold, is written "^"
Printable ==
    <<" ", "!", "\"", "#", "$", "%", "&", "'", "(", ")", "*", "+", ",", "-", ".", "/",
      "0", "1", "2", "3", "4", "5", "6", "7", "8", "9", ":", ";", "<", "=", ">", "?",
      "@", "A", "B", "C", "D", "E", "F", "G", "H", "I", "J", "K", "L", "M", "N", "O",
      "P", "Q", "R", "S", "T", "U", "V", "W", "X", "Y", "Z", "[", "\\", "]", "^", "_",
      "^", "a", "b", "c", "d", "e", "f", "g", "h", "i", "j", "k", "l", "m", "n", "o",
      "p", "q", "r", "s", "t", "u", "v", "w", "x", "y", "z", "{", "|", "}", "~">>

IsB64(c) == \E i \in 1..Len(B64Chars) : B64Chars[i] = c

B64Val(c) == (CHOOSE i \in 1..Len(B64Chars) : B64Chars[i] = c) - 1

\* binascii.a2b_base64 without strict mode: characters outside the alphabet
\* are skipped, a complete pad ends the input, an incomplete quad is an Error.
\* Result: the decoded bytes, or <<-1>> for binascii.Error.
RECURSIVE a2b_base64(_, _, _, _, _)
a2b_base64(s, quad_pos, leftchar, pads, bin) ==
    IF s = <<>> THEN (IF quad_pos # 0 THEN <<-1>> ELSE bin)
    ELSE LET c == Head(s) IN
         IF c = "=" THEN
             IF quad_pos >= 2 /\ quad_pos + pads + 1 >= 4 THEN bin
             ELSE a2b_base64(Tail(s), quad_pos, leftchar,
                             IF quad_pos >= 2 THEN pads + 1 ELSE pads, bin)
         ELSE IF ~IsB64(c) THEN a2b_base64(Tail(s), quad_pos, leftchar, pads, bin)
         ELSE LET v == B64Val(c) IN
              CASE quad_pos = 0 -> a2b_base64(Tail(s), 1, v, 0, bin)
                [] quad_pos = 1 -> a2b_base64(Tail(s), 2, v % 16, 0,
                                              Append(bin, leftchar * 4 + v \div 16))
                [] quad_pos = 2 -> a2b_base64(Tail(s), 3, v % 4, 0,
                                              Append(bin, leftchar * 16 + v \div 4))
                [] OTHER        -> a2b_base64(Tail(s), 0, 0, 0,
                                              Append(bin, leftchar * 64 + v))

\* bytes.decode(): UTF-8.  A byte below 128 is its ASCII character (a control
\* character is written "^"); a byte from 128 starts a multi-byte sequence,
\* which no payload of the model completes: UnicodeDecodeError.
b64decode_decode(v) ==
    LET bin == a2b_base64(v, 0, 0, 0, <<>>)
    IN  IF bin = <<-1>> THEN Raise("Error")
        ELSE IF \E i \in 1..Len(bin) : bin[i] >= 128 THEN Raise("UnicodeDecodeError")
        ELSE JStr([i \in 1..Len(bin) |->
                     IF bin[i] >= 32 /\ bin[i] <= 126 THEN Printable[bin[i] - 31] ELSE "^"])

---------------------------------------------------------------------------
(* class JsonHelper.  self is [data |-> .., separator |-> ..]; the opener *)
(* and closer are the constants set by __init__.                          *)

arrayOpener == "("
arrayCloser == ")"

JsonHelper(json_data, sep) == [data |-> json_data, separator |-> sep]

\* the default of get's temp_data parameter
NoTempData == JStr(<<>>)

RECURSIVE get(_, _, _), getSubElement(_, _, _), getSubArrayElement(_, _, _), searchIndex(_, _, _, _, _)

getSubElement(self, k, d) ==
    LET separatorIndex == Find(k, <<self.separator>>)
        partialKey     == Slice(k, 0, separatorIndex)
        remainingKey   == SliceFrom(k, separatorIndex + 1)
    IN  Try(In(partialKey, d), LAMBDA has :
            IF has.b
                THEN Try(Subscript(d, partialKey), LAMBDA child : get(self, remainingKey, child))
            ELSE NotFound)

\* the loop `for i in range(len(data))` from index i on: JInt(index) of the
\* first element whose str(get(n, element)) equals v, NotFound when the loop
\* ends without a break, or the exception raised on the way
searchIndex(self, n, v, d, i) ==
    Try(PyLen(d), LAMBDA size :
        IF i >= size.n THEN NotFound
        ELSE Try(Item(d, i), LAMBDA elem :
             Try(get(self, n, elem), LAMBDA got :
                 IF PyStr(got) = v THEN JInt(i)
                 ELSE searchIndex(self, n, v, d, i + 1))))

getSubArrayElement(self, k0, d) ==
    LET opener     == Find(k0, <<arrayOpener>>)
        closer     == Find(k0, <<arrayCloser>>)
        closerSep  == Find(k0, <<arrayCloser, self.separator>>)
        subElemKey == Slice(k0, 0, opener)
        k          == Slice(k0, opener + 1, closer)
        nv         == Split1(k, "=")
        \* lines 107-122: the index, NotFound, or an exception
        found      == IF isdecimal(k) THEN JInt(DigitsVal(k))
                      ELSE IF Len(nv) # 2 THEN Raise("ValueError")
                      ELSE Try(b64decode_decode(nv[2]), LAMBDA decoded :
                               searchIndex(self, nv[1], decoded.s, d, 0))
        remainingKey == IF closerSep = -1 THEN SliceFrom(k0, closer + 1)
                        ELSE SliceFrom(k0, closerSep + 2)
    IN  Let(found, LAMBDA index :
            IF index.t # "int" THEN index
            ELSE Try(In(subElemKey, d), LAMBDA has :
                 \* lines 126-135: the element to go on with, or NotFound
                 Try(IF has.b THEN
                         Try(Subscript(d, subElemKey), LAMBDA sub :
                         Try(PyLen(sub), LAMBDA size :
                             IF index.n < size.n THEN Item(sub, index.n) ELSE NotFound))
                     ELSE IF subElemKey = <<>> THEN Item(d, index.n)
                     ELSE NotFound,
                     LAMBDA elem : IF elem = NotFound THEN NotFound
                                   ELSE get(self, remainingKey, elem))))

get(self, k, temp_data) ==
    LET d  == IF Truthy(temp_data) THEN temp_data ELSE self.data
        sp == Find(k, <<self.separator>>)
        op == Find(k, <<arrayOpener>>)
        \* lines 151-162: the method the key is handed to
        method == IF sp # -1 /\ op # -1
                      THEN (IF sp < op THEN "getSubElement" ELSE "getSubArrayElement")
                  ELSE IF sp # -1 THEN "getSubElement"
                  ELSE IF op # -1 THEN "getSubArrayElement"
                  ELSE "none"
    IN  IF Len(k) <= 0 THEN d
        ELSE CASE method = "getSubElement"      -> getSubElement(self, k, d)
               [] method = "getSubArrayElement" -> getSubArrayElement(self, k, d)
               [] OTHER -> Try(In(k, d), LAMBDA has :
                               IF has.b THEN Subscript(d, k) ELSE NotFound)

\* exists(key): JBool(..), or the exception get raised
exists(self, k) ==
    Try(get(self, k, NoTempData), LAMBDA got : JBool(got # NotFound))

---------------------------------------------------------------------------
(* float(x) and int(x).  A float is kept exact, as num/den with den > 0,   *)
(* or as an infinity or nan: [t |-> "float", k |-> "fin"|"inf"|"-inf"|     *)
(* "nan", num |-> .., den |-> ..].  The literals read are an optional      *)
(* sign followed by digits with an optional fraction, or by inf, infinity  *)
(* or nan in lower case; exponents, underscores and blanks never occur in  *)
(* the rule strings of the model.                                          *)

Fin(num, den) == [t |-> "float", k |-> "fin", num |-> num, den |-> den]
Special(kind) == [t |-> "float", k |-> kind, num |-> 0, den |-> 1]

RECURSIVE Pow10(_)
Pow10(n) == IF n = 0 THEN 1 ELSE 10 * Pow10(n - 1)

AllDigits(s) == \A i \in 1..Len(s) : IsDigit(s[i])

\* float(s) of a string
ParseFloat(s) ==
    LET signed == Len(s) > 0 /\ s[1] \in {"-", "+"}
        neg    == Len(s) > 0 /\ s[1] = "-"
        body   == IF signed THEN Tail(s) ELSE s
    IN  IF body \in {<<"i", "n", "f">>, <<"i", "n", "f", "i", "n", "i", "t", "y">>}
            THEN Special(IF neg THEN "-inf" ELSE "inf")
        ELSE IF body = <<"n", "a", "n">> THEN Special("nan")
        ELSE Let(Split(body, "."), LAMBDA parts :
             Let(IF Len(parts) = 2 THEN parts[2] ELSE <<>>, LAMBDA frac :
                 IF Len(parts) <= 2 /\ AllDigits(parts[1]) /\ AllDigits(frac)
                                    /\ Len(parts[1] \o frac) > 0
                     THEN Let(DigitsVal(parts[1] \o frac), LAMBDA mag :
                              Fin(IF neg THEN -mag ELSE mag, Pow10(Len(frac))))
                 ELSE Raise("ValueError")))

\* float(x) of a JSON value or of a range bound
pyfloat(x) ==
    CASE x.t = "int"  -> Fin(x.n, 1)
      [] x.t = "real" -> Fin(x.x, 10)
      [] x.t = "bool" -> Fin(IF x.b THEN 1 ELSE 0, 1)
      [] x.t = "str"  -> ParseFloat(x.s)
      [] OTHER        -> Raise("TypeError")

\* a < b and a <= b on floats
FloatLt(a, b) ==
    CASE a.k = "nan" \/ b.k = "nan" -> FALSE
      [] a.k = "inf"  -> FALSE
      [] a.k = "-inf" -> b.k # "-inf"
      [] b.k = "inf"  -> TRUE
      [] b.k = "-inf" -> FALSE
      [] OTHER        -> a.num * b.den < b.num * a.den

FloatLe(a, b) ==
    CASE a.k = "nan" \/ b.k = "nan" -> FALSE
      [] OTHER -> FloatLt(a, b) \/ (a.k = b.k /\ a.num * b.den = b.num * a.den)

\* int(x): JInt(..) or the exception
pyint(x) ==
    CASE x.t = "int"  -> x
      [] x.t = "real" -> JInt(IF x.x < 0 THEN -(Abs(x.x) \div 10) ELSE x.x \div 10)
      [] x.t = "bool" -> JInt(IF x.b THEN 1 ELSE 0)
      [] x.t = "str"  ->
            LET signed == Len(x.s) > 0 /\ x.s[1] \in {"-", "+"}
                body   == IF signed THEN Tail(x.s) ELSE x.s
            IN  IF isdecimal(body)
                    THEN JInt(IF x.s[1] = "-" THEN -DigitsVal(body) ELSE DigitsVal(body))
                ELSE Raise("ValueError")
      [] OTHER        -> Raise("TypeError")

---------------------------------------------------------------------------
(* TypeHelper *)

\* the two unit systems, each factor as <<base, exponent, suffix>>
SizeSystem ==
    <<<<1024, 5, <<" ", "P", "i", "B">>>>, <<1024, 4, <<" ", "T", "i", "B">>>>,
      <<1024, 3, <<" ", "G", "i", "B">>>>, <<1024, 2, <<" ", "M", "i", "B">>>>,
      <<1024, 1, <<" ", "K", "i", "B">>>>, <<1024, 0, <<" ", "b", "y", "t", "e", "s">>>>>>

SISystem ==
    <<<<1000, 5, <<"P">>>>, <<1000, 4, <<"T">>>>, <<1000, 3, <<"G">>>>,
      <<1000, 2, <<"M">>>>, <<1000, 1, <<"K">>>>, <<1000, 0, <<"B">>>>>>

\* b divided e times by base, rounding down: b // base**e for b >= 0
RECURSIVE DivPow(_, _, _)
DivPow(b, base, e) == IF e = 0 THEN b ELSE DivPow(b \div base, base, e - 1)

\* the loop of get_size from entry i on: the factor at which it breaks, or
\* the last factor of the system when it never breaks
RECURSIVE get_size_factor(_, _, _)
get_size_factor(b, system, i) ==
    IF i = Len(system) THEN i
    ELSE IF b >= 0 /\ DivPow(b, system[i][1], system[i][2]) >= 1 THEN i
    ELSE get_size_factor(b, system, i + 1)

get_size(b, system) ==
    LET i      == get_size_factor(b, system, 1)
        amount == IF b >= 0 THEN DivPow(b, system[i][1], system[i][2]) ELSE b
    IN  IntToStr(amount) \o system[i][3]

\* TypeHelper(value, field_type): JStr(text) or the exception
TypeHelper(value, ft) ==
    IF ft = "size" THEN Try(pyint(value), LAMBDA b : JStr(get_size(b.n, SizeSystem)))
    ELSE IF ft \in {"si", "SI", "Si", "sI"}
        THEN Try(pyint(value), LAMBDA b : JStr(get_size(b.n, SISystem)))
    ELSE IF ft # "str" THEN Raise("AssertionError")
    ELSE JStr(PyStr(value))

---------------------------------------------------------------------------
(* class NagiosHelper.  A text is a sequence of non-empty fragments whose  *)
(* concatenation is the Python string; '' is the empty sequence.           *)

OK_CODE       == 0
WARNING_CODE  == 1
CRITICAL_CODE == 2
UNKNOWN_CODE  == 3

message_prefixes == <<"OK", "WARNING", "CRITICAL", "UNKNOWN">>

NagiosHelper ==
    [status_message |-> <<>>, performance_data |-> <<>>, warning_message |-> <<>>,
     critical_message |-> <<>>, unknown_message |-> <<>>]

\* getCode with the warning test made last
getCodeWarningLast(self) ==
    LET c1 == IF self.critical_message # <<>> THEN CRITICAL_CODE ELSE OK_CODE
        c2 == IF self.unknown_message # <<>> THEN UNKNOWN_CODE ELSE c1
    IN  IF self.warning_message # <<>> THEN WARNING_CODE ELSE c2

getCode(self) ==
    LET c1 == IF self.warning_message # <<>> THEN WARNING_CODE ELSE OK_CODE
        c2 == IF self.critical_message # <<>> THEN CRITICAL_CODE ELSE c1
    IN  IF self.unknown_message # <<>> THEN UNKNOWN_CODE ELSE c2

getMessage(self) ==
    <<message_prefixes[getCode(self) + 1], ":">> \o self.status_message
        \o self.critical_message \o self.warning_message \o self.unknown_message
        \o (IF self.performance_data # <<>> THEN <<"|">> \o self.performance_data ELSE <<>>)

append_warning(self, warning_message, status_message) ==
    [self EXCEPT !.warning_message = @ \o warning_message,
                 !.status_message  = @ \o status_message]

append_critical(self, critical_message, status_message) ==
    [self EXCEPT !.critical_message = @ \o critical_message,
                 !.status_message   = @ \o status_message]

append_unknown(self, unknown_message, status_message) ==
    [self EXCEPT !.unknown_message = @ \o unknown_message,
                 !.status_message  = @ \o status_message]

append_metrics(self, performance_data, warning_message, critical_message) ==
    append_critical(
        append_warning([self EXCEPT !.performance_data = @ \o performance_data],
                       warning_message, <<>>),
        critical_message, <<>>)

---------------------------------------------------------------------------
(* class JsonHelper: the comparisons.  Each is JBool(..) or the exception. *)

\* a and b, a or b: the short-circuit operators on JBool-or-exception
AndThen(a, b) == Try(a, LAMBDA first : IF first.b THEN b ELSE first)
OrElse(a, b)  == Try(a, LAMBDA first : IF first.b THEN first ELSE b)

\* float(self.get(key)) <op> float(value), the left operand first
Compare(self, k, value, op) ==
    Try(get(self, k, NoTempData), LAMBDA got :
    Try(pyfloat(got), LAMBDA left :
    Try(pyfloat(value), LAMBDA right :
        JBool(CASE op = "<=" -> FloatLe(left, right)
                [] op = "<"  -> FloatLt(left, right)
                [] op = ">=" -> FloatLe(right, left)
                [] OTHER     -> FloatLt(right, left)))))

equals(self, k, value) ==
    LET alts == Split(value, ":")
    IN  AndThen(exists(self, k),
                Try(get(self, k, NoTempData), LAMBDA got :
                    JBool(\E i \in 1..Len(alts) : alts[i] = PyStr(got))))

lte(self, k, value) == AndThen(exists(self, k), Compare(self, k, value, "<="))
lt(self, k, value)  == AndThen(exists(self, k), Compare(self, k, value, "<"))
gte(self, k, value) == AndThen(exists(self, k), Compare(self, k, value, ">="))
gt(self, k, value)  == AndThen(exists(self, k), Compare(self, k, value, ">"))

---------------------------------------------------------------------------
(* _getKeyAlias *)

getKeyAlias(original_key) ==
    LET keys == Split(original_key, ">")
    IN  IF Find(original_key, <<">">>) # -1 /\ Len(keys) = 2
            THEN [key |-> keys[1], alias |-> keys[2]]
        ELSE [key |-> original_key, alias |-> original_key]

---------------------------------------------------------------------------
(* class JsonRuleProcessor.  self is [data, rules, helper]; a rule list is *)
(* None or SomeList(<<rule, ..>>); a check returns Pair(failure, success), *)
(* checkMetrics a Triple, or the exception that ended it.                  *)

None        == [none |-> TRUE]
SomeList(l) == [none |-> FALSE, items |-> l]

Pair(failure, success) == [t |-> "pair", failure |-> failure, success |-> success]
Triple(metrics, warning, critical) ==
    [t |-> "triple", metrics |-> metrics, warning |-> warning, critical |-> critical]

JsonRuleProcessor(json_data, rules_args) ==
    [data |-> json_data, rules |-> rules_args,
     helper |-> JsonHelper(json_data,
                           IF rules_args.separator # "" THEN rules_args.separator ELSE ".")]

Lit(s) == JStr(<<s>>)

\* a format string filled in left to right: JStr(text), or the first exception
RECURSIVE Fmt(_)
Fmt(parts) ==
    IF parts = <<>> THEN JStr(<<>>)
    ELSE Try(Head(parts), LAMBDA first :
         Try(Fmt(Tail(parts)), LAMBDA rest : JStr(first.s \o rest.s)))

\* the outcome of an if / elif / else of checkThreshold
Verdict(c1, fail1, c2, fail2, succ) ==
    Try(c1, LAMBDA first :
        IF first.b THEN Try(Fmt(fail1), LAMBDA text : Pair(text.s, <<>>))
        ELSE Try(c2, LAMBDA second :
             IF second.b THEN Try(Fmt(fail2), LAMBDA text : Pair(text.s, <<>>))
             ELSE Try(Fmt(succ), LAMBDA text : Pair(<<>>, text.s))))

Infinity == <<"i", "n", "f", "i", "n", "i", "t", "y">>

\* the loop of checkExists from rule i on, with the failure text so far
RECURSIVE checkExistsLoop(_, _, _, _)
checkExistsLoop(self, exists_list, i, failure) ==
    IF i > Len(exists_list) THEN Pair(failure, <<>>)
    ELSE LET ka == getKeyAlias(exists_list[i])
         IN  Try(exists(self.helper, ka.key), LAMBDA ex :
                 checkExistsLoop(self, exists_list, i + 1,
                     IF ex.b = FALSE
                         THEN failure \o <<" Key ">> \o ka.alias \o <<" did not exist.">>
                     ELSE failure))

checkExists(self, exists_list) == checkExistsLoop(self, exists_list, 1, <<>>)

\* the loop of checkEquality from rule i on, with the texts so far
RECURSIVE checkEqualityLoop(_, _, _, _, _)
checkEqualityLoop(self, equality_list, i, failure, success) ==
    IF i > Len(equality_list) THEN Pair(failure, success)
    ELSE LET kv == Split(equality_list[i], ",")
             ka == getKeyAlias(kv[1])
         IN  IF Len(kv) # 2 THEN Raise("ValueError")
             ELSE
             Try(get(self.helper, ka.key, NoTempData), LAMBDA got :
             Try(TypeHelper(got, self.rules.field_type), LAMBDA key_val :
             Try(equals(self.helper, ka.key, kv[2]), LAMBDA eq :
                 checkEqualityLoop(self, equality_list, i + 1,
                     IF eq.b = FALSE
                         THEN failure \o <<" Value for key ">> \o ka.alias \o <<" (">>
                                  \o key_val.s \o <<") did not match ">> \o kv[2] \o <<".">>
                     ELSE failure,
                     IF eq.b = FALSE THEN success
                     ELSE success \o <<" Value for key ">> \o ka.alias \o <<" (">>
                              \o key_val.s \o <<") does match ">> \o kv[2] \o <<".">>))))

checkEquality(self, equality_list) == checkEqualityLoop(self, equality_list, 1, <<>>, <<>>)

\* lines 224-250 of checkThreshold: the verdict on the range start..end
checkThresholdRange(self, k, alias, invert, start, end) ==
    LET th(x)  == TypeHelper(x, self.rules.field_type)
        invert_str == IF invert THEN JStr(<<"not">>) ELSE JStr(<<>>)
        h      == self.helper
        no     == JBool(FALSE)
    IN  Try(get(h, k, NoTempData), LAMBDA got :
        Try(th(got), LAMBDA key_val :
        LET head == <<Lit(" Value for key "), JStr(alias), Lit(" ("), key_val>>
        IN  IF start.t = "str" /\ start.s = <<"~">> THEN
                Verdict(IF invert THEN lte(h, k, end) ELSE no,
                        head \o <<Lit(") was less than or equal to "), th(end), Lit(".")>>,
                        IF ~invert THEN gt(h, k, end) ELSE no,
                        head \o <<Lit(") was greater than "), th(end), Lit(".")>>,
                        head \o <<Lit(") was"), invert_str, Lit(" in range ':"), th(end), Lit("'.")>>)
            ELSE IF end.s = Infinity THEN
                Verdict(IF invert THEN gte(h, k, start) ELSE no,
                        head \o <<Lit(") was greater than or equal to "), th(start), Lit(".")>>,
                        IF ~invert THEN lt(h, k, start) ELSE no,
                        head \o <<Lit(") was less than "), th(start), Lit(".")>>,
                        head \o <<Lit(") was"), invert_str, Lit(" in range '"), th(start), Lit(":'.")>>)
            ELSE
                Verdict(IF invert THEN AndThen(gte(h, k, start), lte(h, k, end)) ELSE no,
                        head \o <<Lit(") was inside the range '"), th(start), Lit(" : "), th(end), Lit("'.")>>,
                        IF ~invert THEN OrElse(lt(h, k, start), gt(h, k, end)) ELSE no,
                        head \o <<Lit(") was outside the range '"), th(start), Lit(" : "), th(end), Lit("'.")>>,
                        head \o <<Lit(") was"), invert_str, Lit(" in range '"), th(start), Lit(" : "),
                                  th(end), Lit("'.")>>)))

\* lines 211-223: the range is read, then the verdict is made
checkThreshold(self, k, alias, r0) ==
    LET invert == Len(r0) > 0 /\ r0[1] = "@"
        r      == IF invert THEN Tail(r0) ELSE r0
        vals   == Split(r, ":")
    IN  checkThresholdRange(self, k, alias, invert,
            IF Len(vals) = 2 THEN JStr(vals[1]) ELSE JInt(0),
            IF Len(vals) = 1 THEN JStr(vals[1])
            ELSE IF Len(vals) = 2 /\ vals[2] # <<>> THEN JStr(vals[2])
            ELSE JStr(Infinity))

\* the loop of checkThresholds from rule i on, with the texts so far
RECURSIVE checkThresholdsLoop(_, _, _, _, _)
checkThresholdsLoop(self, threshold_list, i, failure, success) ==
    IF i > Len(threshold_list) THEN Pair(failure, success)
    ELSE LET kr == Split(threshold_list[i], ",")
             ka == getKeyAlias(kr[1])
         IN  IF Len(kr) # 2 THEN Raise("ValueError")
             ELSE Try(checkThreshold(self, ka.key, ka.alias, kr[2]), LAMBDA res :
                      checkThresholdsLoop(self, threshold_list, i + 1,
                                          failure \o res.failure, success \o res.success))

checkThresholds(self, threshold_list) ==
    checkThresholdsLoop(self, threshold_list, 1, <<>>, <<>>)

\* failure += result[0]; success += result[1], for a Pair so far and the
\* check of the next list (skipped when the list is None)
AddResult(sofar, list, check(_)) ==
    Try(sofar, LAMBDA acc :
        IF list.none THEN acc
        ELSE Try(check(list.items), LAMBDA res :
                 Pair(acc.failure \o res.failure, acc.success \o res.success)))

checkWarning(self) ==
    AddResult(AddResult(AddResult(Pair(<<>>, <<>>),
        self.rules.key_threshold_warning, LAMBDA l : checkThresholds(self, l)),
        self.rules.key_value_list, LAMBDA l : checkEquality(self, l)),
        self.rules.key_list, LAMBDA l : checkExists(self, l))

checkCritical(self) ==
    AddResult(AddResult(AddResult(Pair(<<>>, <<>>),
        self.rules.key_threshold_critical, LAMBDA l : checkThresholds(self, l)),
        self.rules.key_value_list_critical, LAMBDA l : checkEquality(self, l)),
        self.rules.key_list_critical, LAMBDA l : checkExists(self, l))

\* one `if x != None:` block of checkMetrics: the threshold check of the
\* range, its failure added to the tier's text, then the field to the metrics
checkMetricField(self, ka, sofar, opt, range, tier) ==
    Try(sofar, LAMBDA acc :
        IF opt = <<>> THEN acc
        ELSE Try(checkThreshold(self, ka.key, ka.alias, range), LAMBDA res :
                 Triple(acc.metrics \o <<";">> \o opt[1],
                        IF tier = "warning" THEN acc.warning \o res.failure ELSE acc.warning,
                        IF tier = "critical" THEN acc.critical \o res.failure ELSE acc.critical)))

\* lines 301-328: one metric, added to the Triple so far
checkMetric(self, metric, sofar) ==
    LET vals  == Split(metric, ",")
        n     == IF Find(metric, <<",">>) # -1 THEN Len(vals) ELSE 0
        key0  == IF n \in {2, 4, 6} THEN vals[1] ELSE metric
        uom   == IF n \in {2, 4, 6} THEN vals[2] ELSE <<>>
        \* None is the empty sequence, a value the sequence of that value
        warn_range == IF n \in {4, 6} THEN <<vals[3]>> ELSE <<>>
        crit_range == IF n \in {4, 6} THEN <<vals[4]>> ELSE <<>>
        minimum    == IF n = 6 THEN <<vals[5]>> ELSE <<>>
        maximum    == IF n = 6 THEN <<vals[6]>> ELSE <<>>
        ka    == getKeyAlias(key0)
        Arg(opt, before, after) == IF opt = <<>> THEN <<>> ELSE before \o opt[1] \o after
        close(body) == Triple(body.metrics \o <<" ">>, body.warning, body.critical)
    IN  Try(exists(self.helper, ka.key), LAMBDA ex :
            IF ex.b THEN
                Try(get(self.helper, ka.key, NoTempData), LAMBDA got :
                Try(checkMetricField(self, ka,
                     checkMetricField(self, ka,
                      checkMetricField(self, ka,
                       checkMetricField(self, ka,
                        Triple(sofar.metrics \o <<"'">> \o ka.alias \o <<"'", "=">>
                                   \o PyStr(got) \o uom,
                               sofar.warning, sofar.critical),
                        warn_range, Arg(warn_range, <<>>, <<>>), "warning"),
                       crit_range, Arg(crit_range, <<>>, <<>>), "critical"),
                      minimum, Arg(minimum, <<>>, <<":">>), "critical"),
                     maximum, Arg(maximum, <<"~", ":">>, <<>>), "critical"),
                    close))
            ELSE close(sofar))

\* the loop of checkMetrics from metric i on, with the Triple so far
RECURSIVE checkMetricsLoop(_, _, _)
checkMetricsLoop(self, i, sofar) ==
    IF i > Len(self.rules.metric_list.items) THEN sofar
    ELSE Try(checkMetric(self, self.rules.metric_list.items[i], sofar), LAMBDA acc :
             checkMetricsLoop(self, i + 1, acc))

checkMetrics(self) ==
    IF self.rules.metric_list.none THEN Triple(<<>>, <<>>, <<>>)
    ELSE checkMetricsLoop(self, 1, Triple(<<>>, <<>>, <<>>))

---------------------------------------------------------------------------
(* The rule pass of the entry point (lines 545-550), which check_data of   *)
(* the unit tests repeats (lines 434-439).                                 *)

\* the argparse namespace: the rule lists with the mode and the separator
Args(lists, ft, sep) ==
    [field_type |-> ft, separator |-> sep,
     key_threshold_warning   |-> lists.key_threshold_warning,
     key_threshold_critical  |-> lists.key_threshold_critical,
     key_value_list          |-> lists.key_value_list,
     key_value_list_critical |-> lists.key_value_list_critical,
     key_list                |-> lists.key_list,
     key_list_critical       |-> lists.key_list_critical,
     metric_list             |-> lists.metric_list]

NoRules ==
    [key_threshold_warning |-> None, key_threshold_critical |-> None,
     key_value_list |-> None, key_value_list_critical |-> None,
     key_list |-> None, key_list_critical |-> None, metric_list |-> None]

Report(n) == [t |-> "verdict", code |-> getCode(n), message |-> getMessage(n), nagios |-> n]

\* the whole pass: the verdict printed, or the exception that ended the run
RunOutcome(json_data, args) ==
    LET processor == JsonRuleProcessor(json_data, args)
    IN  Try(checkWarning(processor), LAMBDA w :
        Try(checkCritical(processor), LAMBDA c :
        Try(checkMetrics(processor), LAMBDA m :
            Report(append_metrics(
                       append_critical(append_warning(NagiosHelper, w.failure, w.success),
                                       c.failure, c.success),
                       m.metrics, m.warning, m.critical)))))

---------------------------------------------------------------------------
(* Bounds of the inputs *)

MaxSegs  == 2    \* segments of a path
MaxIndex == 2    \* largest index written in an accessor
MaxVal   == 3    \* largest number held by the tree
MaxBound == 2    \* largest bound written in a range
MaxText  == 2    \* fragments a NagiosHelper text grows to

Unset == [t |-> "unset"]

Modes == {"str", "size", "SI"}

\* a number given in tenths, as a rule string writes it: 20 is 2, 15 is 1.5
NumStr(x) ==
    (IF x < 0 THEN <<"-">> ELSE <<>>) \o NatToStr(Abs(x) \div 10)
        \o (IF x % 10 = 0 THEN <<>> ELSE <<".">> \o NatToStr(Abs(x) % 10))

\* the number a JSON value holds, in tenths
Tenths(v) == IF v.t = "int" THEN 10 * v.n ELSE v.x

IsNumber(v) == v.t \in {"int", "real"}

\* a range as written: [form, inv, a, b], bounds in tenths; form "A" and
\* "A:" write a, form "~:B" writes b
RangeStr(r) ==
    (IF r.inv THEN <<"@">> ELSE <<>>) \o
    CASE r.form = "A"   -> NumStr(r.a)
      [] r.form = "A:"  -> NumStr(r.a) \o <<":">>
      [] r.form = "~:B" -> <<"~", ":">> \o NumStr(r.b)
      [] OTHER          -> NumStr(r.a) \o <<":">> \o NumStr(r.b)

Forms == {"A", "A:", "~:B", "A:B"}

\* forms that write one bound carry 0 in the other field
IsRange(r) ==
    CASE r.form \in {"A", "A:"} -> r.b = 0
      [] r.form = "~:B"         -> r.a = 0
      [] OTHER                  -> TRUE

---------------------------------------------------------------------------
(* SpecGet: JsonHelper.get on a tree and a path *)

PathKeys == {<<"a">>, <<"b">>}

\* a segment: a key, a key with an accessor, or an accessor alone (i = -1:
\* no accessor; k = <<>>: no key)
Segments ==
    {s \in [k : PathKeys \cup {<<>>}, i : -1..MaxIndex] : s.k # <<>> \/ s.i # -1}

StructPaths == UNION {[1..n -> Segments] : n \in 1..MaxSegs}

SegmentStr(s) ==
    s.k \o (IF s.i = -1 THEN <<>> ELSE <<arrayOpener>> \o NatToStr(s.i) \o <<arrayCloser>>)

FormatPath(segs, sep) == Join([i \in 1..Len(segs) |-> SegmentStr(segs[i])], <<sep>>)

InnerNodes ==
    {JNull, JBool(FALSE), JInt(0), JInt(7), JStr(<<>>), JStr(<<"b">>), JMap(<<>>), JList(<<>>),
     JMap(<<<<<<"b">>, JInt(1)>>>>), JMap(<<<<<<"b">>, JInt(0)>>, <<<<"a">>, JList(<<JInt(5)>>)>>>>),
     JList(<<JInt(0), JMap(<<<<<<"b">>, JInt(2)>>>>)>>), JList(<<JList(<<>>), JInt(6), JNull>>)}

GetTrees ==
    {JMap(<<<<<<"a">>, x>>, <<<<"b">>, JInt(3)>>>>) : x \in InnerNodes}
        \cup {JList(<<x, JMap(<<<<<<"a">>, JInt(4)>>>>)>>) : x \in InnerNodes}

InitGet ==
    /\ given \in StructPaths
    /\ separator \in {".", "_"}
    /\ key = FormatPath(given, separator)
    /\ data \in GetTrees
    /\ field_type = "str"
    /\ rules = NoRules
    /\ nagios = NagiosHelper
    /\ result = Unset
    /\ pc = "get"

\* helper.get(key)
Get ==
    /\ pc = "get"
    /\ result' = get(JsonHelper(data, separator), key, NoTempData)
    /\ pc' = "got"
    /\ UNCHANGED <<data, separator, field_type, rules, nagios, key, given>>

NextGet == Get

SpecGet == InitGet /\ [][NextGet]_vars

\* the node a path addresses, by its segments: a key selects the child of a
\* mapping, an accessor the element of a sequence; NotFound when a segment
\* selects nothing
RECURSIVE Addressed(_, _)
Addressed(node, segs) ==
    IF segs = <<>> THEN node
    ELSE LET seg   == Head(segs)
             child == IF seg.k = <<>> THEN node
                      ELSE IF node.t = "map" /\ HasKey(node.m, seg.k) THEN Lookup(node.m, seg.k)
                      ELSE NotFound
             elem  == IF child = NotFound \/ seg.i = -1 THEN child
                      ELSE IF child.t = "list" /\ seg.i < Len(child.l) THEN child.l[seg.i + 1]
                      ELSE NotFound
         IN  IF elem = NotFound THEN NotFound ELSE Addressed(elem, Tail(segs))

\* C1: get(p) returns exactly the node the path addresses, also when that
\* node or a node selected on the way is null, 0, false or empty, and
\* NotFound when the path addresses nothing; the rest of a path is never
\* resolved against the root.
CE_C1 == pc = "got" => result = Addressed(data, given)

\* the path is one accessor that selects nothing: '(i)' on a sequence or
\* 'subKey(i)' on a mapping, with the subKey absent or the index beyond the
\* last element of the target sequence
AccessorMisses ==
    /\ Len(given) = 1
    /\ given[1].i # -1
    /\ IF given[1].k = <<>>
           THEN data.t = "list" /\ given[1].i >= Len(data.l)
       ELSE /\ data.t = "map"
            /\ HasKey(data.m, given[1].k) =>
                   /\ Lookup(data.m, given[1].k).t = "list"
                   /\ given[1].i >= Len(Lookup(data.m, given[1].k).l)

\* C6: an accessor whose index is out of the bounds of the target sequence,
\* or whose subKey is absent, resolves to NotFound and never to an error,
\* for 'subKey(i)' and for '(i)'.
CE_C6 == pc = "got" /\ AccessorMisses => result = NotFound

---------------------------------------------------------------------------
(* SpecThreshold: checkThreshold on one present number and one range *)

Bounds == {10 * n : n \in -1..MaxBound} \cup {10 * n + 5 : n \in 0..(MaxBound - 1)}

Ranges == {r \in [form : Forms, inv : BOOLEAN, a : Bounds \cup {0}, b : Bounds \cup {0}] : IsRange(r)}

Numbers == {JInt(n) : n \in -1..MaxVal} \cup {JReal(10 * n + 5) : n \in -1..(MaxVal - 1)}

InitThreshold ==
    /\ given \in [r : Ranges, v : Numbers]
    /\ key = RangeStr(given.r)
    /\ data = JMap(<<<<<<"m">>, given.v>>>>)
    /\ field_type \in Modes
    /\ separator = "."
    /\ rules = NoRules
    /\ nagios = NagiosHelper
    /\ result = Unset
    /\ pc = "threshold"

\* processor.checkThreshold('m', 'm', key)
CheckThreshold ==
    /\ pc = "threshold"
    /\ result' = checkThreshold(JsonRuleProcessor(data, Args(rules, field_type, separator)),
                                <<"m">>, <<"m">>, key)
    /\ pc' = "thresholdDone"
    /\ UNCHANGED <<data, separator, field_type, rules, nagios, key, given>>

NextThreshold == CheckThreshold

SpecThreshold == InitThreshold /\ [][NextThreshold]_vars

\* whether the number x (in tenths) fails the range r, as the range is read:
\* 'A' is 0..A, 'A:' is A and above, '~:B' is B and below, 'A:B' is A..B,
\* bounds included, and '@' turns the verdict round
RangeFails(r, x) ==
    LET outside == CASE r.form = "A"   -> x < 0 \/ x > r.a
                     [] r.form = "A:"  -> x < r.a
                     [] r.form = "~:B" -> x > r.b
                     [] OTHER          -> x < r.a \/ x > r.b
    IN  IF r.inv THEN ~outside ELSE outside

\* the range of the call with its '@' added or removed
Inverse(r) == [r EXCEPT !.inv = ~@]

\* checkThreshold returned a verdict, the verdict is a failure exactly when
\* the value fails the range, and the inverse range gets the other verdict
ThresholdVerdict ==
    /\ result.t = "pair"
    /\ (result.failure # <<>>) <=> RangeFails(given.r, Tenths(given.v))
    /\ Let(checkThreshold(JsonRuleProcessor(data, Args(rules, field_type, separator)),
                          <<"m">>, <<"m">>, RangeStr(Inverse(given.r))),
           LAMBDA other : other.t = "pair"
                          /\ (other.failure # <<>>) # (result.failure # <<>>))

\* C2: for every present number v and every well-formed range checkThreshold
\* reports a failure exactly when v is outside the range ('A', 'A:', '~:B',
\* 'A:B', bounds inclusive), and exactly one of R and @R reports a failure.
CE_C2 == pc = "thresholdDone" => ThresholdVerdict

\* what holds of C2: the same in the verbatim mode, the default
Verbatim_C2 == pc = "thresholdDone" /\ field_type = "str" => ThresholdVerdict

---------------------------------------------------------------------------
(* SpecNagios: any sequence of append calls on a NagiosHelper *)

Texts == {<<>>, <<" x.">>}

Fits(n) ==
    /\ Len(n.status_message) <= MaxText
    /\ Len(n.performance_data) <= MaxText
    /\ Len(n.warning_message) <= MaxText
    /\ Len(n.critical_message) <= MaxText
    /\ Len(n.unknown_message) <= MaxText

InitNagios ==
    /\ nagios = NagiosHelper
    /\ data = JNull
    /\ separator = "."
    /\ field_type = "str"
    /\ rules = NoRules
    /\ key = <<>>
    /\ given = <<>>
    /\ result = Unset
    /\ pc = "nagios"

\* the call is made when its texts fit the bound
Appended(n) ==
    /\ Fits(n)
    /\ nagios' = n
    /\ UNCHANGED <<data, separator, field_type, rules, key, given, result, pc>>

AppendWarning ==
    /\ pc = "nagios"
    /\ \E w \in Texts, s \in Texts : Appended(append_warning(nagios, w, s))

AppendCritical ==
    /\ pc = "nagios"
    /\ \E c \in Texts, s \in Texts : Appended(append_critical(nagios, c, s))

AppendUnknown ==
    /\ pc = "nagios"
    /\ \E u \in Texts, s \in Texts : Appended(append_unknown(nagios, u, s))

AppendMetrics ==
    /\ pc = "nagios"
    /\ \E p \in Texts, w \in Texts, c \in Texts : Appended(append_metrics(nagios, p, w, c))

\* nagios.getCode()
GetCode ==
    /\ pc = "nagios"
    /\ result' = getCode(nagios)
    /\ pc' = "coded"
    /\ UNCHANGED <<data, separator, field_type, rules, nagios, key, given>>

NextNagios == AppendWarning \/ AppendCritical \/ AppendUnknown \/ AppendMetrics \/ GetCode

SpecNagios == InitNagios /\ [][NextNagios]_vars

\* C3: after any sequence of appends getCode() is UNKNOWN if the unknown text
\* is non-empty, else CRITICAL if the critical text is non-empty, else WARNING
\* if the warning text is non-empty, else OK, whatever the status narration
\* and the performance data hold.
Thm_C3 ==
    pc = "coded" =>
        result = IF nagios.unknown_message # <<>> THEN 3
                 ELSE IF nagios.critical_message # <<>> THEN 2
                 ELSE IF nagios.warning_message # <<>> THEN 1
                 ELSE 0

\* the critical tier wins over the warning tier, with narration and
\* performance data present
Wit_C3 ==
    /\ pc = "coded"
    /\ nagios.unknown_message = <<>>
    /\ nagios.critical_message # <<>>
    /\ nagios.warning_message # <<>>
    /\ nagios.status_message # <<>>
    /\ nagios.performance_data # <<>>
    /\ result = CRITICAL_CODE

---------------------------------------------------------------------------
(* Spec: the rule pass of the entry point on one tree and one rule set.    *)
(* given holds the rules as structures; rules holds them as written.       *)

Present == <<"m">>    \* a key of the tree
Absent  == <<"x">>    \* a key the tree does not hold

RunValues == {JInt(n) : n \in 0..MaxVal} \cup {JReal(10 * MaxBound - 5)}

\* {"m": v, "a": [{"n": 1}]}
RunTree(v) ==
    JMap(<<<<Present, v>>, <<<<"a">>, JList(<<JMap(<<<<<<"n">>, JInt(1)>>>>)>>)>>>>)

\* the ranges of the rules: the four forms on the bounds 1 and MaxBound - 0.5
RuleRanges ==
    {r \in Ranges : /\ r.form \in {"A", "A:", "A:B"} => r.a = 10
                    /\ r.form \in {"~:B", "A:B"} => r.b = 10 * MaxBound - 5}

ListOf(strs) == IF strs = <<>> THEN None ELSE SomeList(strs)

\* the options -w -q -e, or -c -Q -E
InTier(tier, w, q, e) ==
    IF tier = "warning"
        THEN [NoRules EXCEPT !.key_threshold_warning = ListOf(w), !.key_value_list = ListOf(q),
                             !.key_list = ListOf(e)]
    ELSE [NoRules EXCEPT !.key_threshold_critical = ListOf(w),
                         !.key_value_list_critical = ListOf(q), !.key_list_critical = ListOf(e)]

EqualityStr(q) ==
    q.k \o <<",">> \o Join([i \in 1..Len(q.alts) |-> NumStr(q.alts[i])], <<":">>)

ThresholdStr(w) == w.k \o <<",">> \o RangeStr(w.r)

MetricStr(mt) ==
    mt.k \o (IF mt.fields >= 2 THEN <<",">> \o mt.uom ELSE <<>>)
         \o (IF mt.fields >= 4 THEN <<",">> \o RangeStr(mt.warn) \o <<",">> \o RangeStr(mt.crit)
             ELSE <<>>)
         \o (IF mt.fields = 6 THEN <<",">> \o NumStr(mt.min) \o <<",">> \o NumStr(mt.max)
             ELSE <<>>)

\* rule sets of existence, equality and threshold rules in one tier
TierInputs ==
    [family : {"tier"}, tier : {"warning", "critical"},
     e : {<<>>, <<Present>>, <<Absent>>, <<Present, Absent>>},
     q : {<<>>} \cup {<<[k |-> k, alts |-> a]>> : k \in {Present, Absent}, a \in {<<10>>, <<10, 20>>}},
     w : {<<>>} \cup {<<[k |-> Present, r |-> r]>> : r \in RuleRanges}]

\* one metric spec of 1, 2, 4 or 6 fields; the fields a spec does not write
\* are left at the first value
MetricInputs ==
    {mt \in [family : {"metric"}, k : {Present, Absent}, fields : {1, 2, 4, 6}, uom : {<<"s">>},
             warn : RuleRanges, crit : RuleRanges, min : {10}, max : {20}] :
        mt.fields < 4 => mt.warn = mt.crit /\ ~mt.warn.inv /\ mt.warn.form = "A"}

\* what follows the key in a malformed rule, and the list it is given in
Malformed ==
    {[list |-> "w", rest |-> <<",", "a", "b", "c">>],
     [list |-> "w", rest |-> <<",", "1", ":", "a", "b", "c">>],
     [list |-> "w", rest |-> <<",", ":", "2">>],
     [list |-> "w", rest |-> <<",", "1", ":", "2", ":", "3">>],
     [list |-> "w", rest |-> <<>>],
     [list |-> "w", rest |-> <<",", "1", ",", "2">>],
     [list |-> "q", rest |-> <<>>],
     [list |-> "q", rest |-> <<",", "1", ",", "2">>],
     [list |-> "metric", rest |-> <<",", "s", ",", "1", ":", "2">>],
     [list |-> "metric", rest |-> <<",", "s", ",", "1", ":", "2", ",", "1", ":", "2", ",", "0">>],
     [list |-> "metric", rest |-> <<",", "s", ",", "1", ":", "2", ",", "1", ":", "2", ",", "0", ",", "9", ",", "9">>]}

MalformedInputs ==
    {g \in [family : {"malformed"}, tier : {"warning", "critical"}, k : {Present, Absent},
            odd : Malformed] : g.odd.list = "metric" => g.tier = "warning"}

BadPayload  == <<"a", "b", "c">>          \* no base64: an incomplete quad
GoodPayload == <<"M", "Q", "=", "=">>     \* base64 of '1'

\* two rules in one list, the first with a search accessor
SearchInputs ==
    {g \in [family : {"b64"}, tier : {"warning", "critical"}, list : {"e", "q", "w", "metric"},
            payload : {BadPayload, GoodPayload}] : g.list = "metric" => g.tier = "warning"}

SearchPath(payload) == <<"a", "(", "n", "=">> \o payload \o <<")", ".", "n">>

Build(g) ==
    CASE g.family = "tier" ->
            InTier(g.tier, [i \in 1..Len(g.w) |-> ThresholdStr(g.w[i])],
                   [i \in 1..Len(g.q) |-> EqualityStr(g.q[i])], g.e)
      [] g.family = "metric" -> [NoRules EXCEPT !.metric_list = SomeList(<<MetricStr(g)>>)]
      [] g.family = "malformed" ->
            CASE g.odd.list = "w" -> InTier(g.tier, <<g.k \o g.odd.rest>>, <<>>, <<>>)
              [] g.odd.list = "q" -> InTier(g.tier, <<>>, <<g.k \o g.odd.rest>>, <<>>)
              [] OTHER -> [NoRules EXCEPT !.metric_list = SomeList(<<g.k \o g.odd.rest>>)]
      [] OTHER ->
            CASE g.list = "e" -> InTier(g.tier, <<>>, <<>>, <<SearchPath(g.payload), Absent>>)
              [] g.list = "q" -> InTier(g.tier, <<>>, <<SearchPath(g.payload) \o <<",", "1">>,
                                                         Absent \o <<",", "1">>>>, <<>>)
              [] g.list = "w" -> InTier(g.tier, <<SearchPath(g.payload) \o <<",", "1", ":">>,
                                                  Present \o <<",", "1", ":">>>>, <<>>, <<>>)
              [] OTHER -> [NoRules EXCEPT !.metric_list =
                               SomeList(<<SearchPath(g.payload), Present>>)]

Init ==
    /\ \/ given \in TierInputs
       \/ given \in MetricInputs
       \/ given \in MalformedInputs
       \/ given \in SearchInputs
    /\ rules = Build(given)
    /\ data \in {RunTree(v) : v \in RunValues}
    /\ field_type \in Modes
    /\ separator = "."
    /\ key = <<>>
    /\ nagios = NagiosHelper
    /\ result = Unset
    /\ pc = "checkWarning"

\* processor = JsonRuleProcessor(data, args)
processor == JsonRuleProcessor(data, Args(rules, field_type, separator))

\* nagios.append_x(*processor.checkX()): the texts appended, or the run
\* ended by the exception the call raised
Call(res, append(_), next) ==
    /\ IF IsError(res)
           THEN /\ result' = res
                /\ pc' = "raised"
                /\ UNCHANGED nagios
       ELSE /\ nagios' = append(res)
            /\ pc' = next
            /\ UNCHANGED result
    /\ UNCHANGED <<data, separator, field_type, rules, key, given>>

CheckWarning ==
    /\ pc = "checkWarning"
    /\ Call(checkWarning(processor),
            LAMBDA res : append_warning(nagios, res.failure, res.success), "checkCritical")

CheckCritical ==
    /\ pc = "checkCritical"
    /\ Call(checkCritical(processor),
            LAMBDA res : append_critical(nagios, res.failure, res.success), "checkMetrics")

CheckMetrics ==
    /\ pc = "checkMetrics"
    /\ Call(checkMetrics(processor),
            LAMBDA res : append_metrics(nagios, res.metrics, res.warning, res.critical), "print")

\* print(nagios.getMessage()), with the code the message is prefixed by
PrintMessage ==
    /\ pc = "print"
    /\ result' = Report(nagios)
    /\ pc' = "done"
    /\ UNCHANGED <<data, separator, field_type, rules, nagios, key, given>>

Next == CheckWarning \/ CheckCritical \/ CheckMetrics \/ PrintMessage

Spec == Init /\ [][Next]_vars

\* the value the tree holds at the key m
Value == Lookup(data.m, Present)

\* an existence rule fails when the tree does not hold its key
ExistenceFails(k) == ~HasKey(data.m, k)

\* an equality rule fails when the tree does not hold its key or the value
\* is none of the alternatives
EqualityFails(q) ==
    \/ ~HasKey(data.m, q.k)
    \/ /\ IsNumber(Lookup(data.m, q.k))
       /\ \A i \in 1..Len(q.alts) : q.alts[i] # Tenths(Lookup(data.m, q.k))

SomeRuleFails ==
    \/ \E i \in 1..Len(given.e) : ExistenceFails(given.e[i])
    \/ \E i \in 1..Len(given.q) : EqualityFails(given.q[i])
    \/ \E i \in 1..Len(given.w) : RangeFails(given.w[i].r, Tenths(Value))

Ended == pc \in {"done", "raised"}

\* the run ended in a verdict whose code is the tier of the lists when some
\* rule fails and OK when none does, the text of the other tier left empty
TierVerdict ==
    /\ pc = "done"
    /\ result.code = IF ~SomeRuleFails THEN OK_CODE
                     ELSE IF given.tier = "warning" THEN WARNING_CODE ELSE CRITICAL_CODE
    /\ given.tier = "warning" => nagios.critical_message = <<>>
    /\ given.tier = "critical" => nagios.warning_message = <<>>

\* C4: a failing existence, equality or threshold rule adds failure text to
\* the tier of its list only: rules in -e -q -w give WARNING when one of them
\* fails and OK otherwise, the same rules in -E -Q -c CRITICAL or OK.
CE_C4 == Ended /\ given.family = "tier" => TierVerdict

\* what holds of C4: the same in the verbatim mode, the default
Verbatim_C4 == Ended /\ given.family = "tier" /\ field_type = "str" => TierVerdict

\* C5: a malformed rule string (a bound that is no number or is empty, a
\* second ':', a threshold or equality rule without exactly one ',', a metric
\* spec of 3, 5 or 7 fields) ends in an error and never in a verdict, whether
\* or not the key is in the tree.
CE_C5 == given.family = "malformed" => pc # "done"

\* C7: a rule that fails does not end the evaluation of the other rules; an
\* invalid base64 payload in the search accessor of one rule fails that rule
\* only, and a verdict is still produced.
CE_C7 == given.family = "b64" /\ given.payload = BadPayload => pc # "raised"

\* C8: a metric spec whose key is NotFound adds nothing to the performance
\* data nor to the warning or critical text, so the message gets no '|'.
CE_C8 ==
    pc = "done" /\ given.family = "metric" /\ given.k = Absent =>
        /\ nagios.performance_data = <<>>
        /\ nagios.warning_message = <<>>
        /\ nagios.critical_message = <<>>
        /\ \A i \in 1..Len(result.message) : result.message[i] # "|"

WarnFails == RangeFails(given.warn, Tenths(Value))

CritFails ==
    \/ RangeFails(given.crit, Tenths(Value))
    \/ given.fields = 6 /\ (Tenths(Value) < given.min \/ Tenths(Value) > given.max)

\* the run ended in a verdict with warning text exactly when the value fails
\* the warn range, critical text exactly when it fails the crit range or is
\* below min or above max, and the code of the highest tier with text
MetricVerdict ==
    /\ pc = "done"
    /\ (nagios.warning_message # <<>>) <=> WarnFails
    /\ (nagios.critical_message # <<>>) <=> CritFails
    /\ result.code = IF CritFails THEN CRITICAL_CODE
                     ELSE IF WarnFails THEN WARNING_CODE ELSE OK_CODE

\* C9: for a metric spec 'key,uom,warn,crit[,min,max]' on a present number v
\* checkMetrics adds warning text iff v fails warn, critical text iff v fails
\* crit or v < min or v > max; the code is CRITICAL, else WARNING, else OK.
CE_C9 ==
    Ended /\ given.family = "metric" /\ given.k = Present /\ given.fields >= 4 => MetricVerdict

\* what holds of C9: the same in the verbatim mode, the default
Verbatim_C9 ==
    Ended /\ given.family = "metric" /\ given.k = Present /\ given.fields >= 4
          /\ field_type = "str" => MetricVerdict

\* two runs end alike: both in an error, or both in a verdict of the same code
SameOutcome(r1, r2) ==
    /\ IsError(r1) <=> IsError(r2)
    /\ ~IsError(r1) => r1.code = r2.code

\* C10: the mode changes the text of the values only: the verbatim mode,
\* 'size' and 'SI' give the same code, or an error in all three.
CE_C10 ==
    Ended => \A ft \in Modes :
                 SameOutcome(RunOutcome(data, Args(rules, ft, separator)), result)

---------------------------------------------------------------------------
(* SpecSearch: JsonHelper.get on a path with one search accessor           *)
(* 'subKey(n=base64(v))', on a sequence of mappings {"n": name, "v": i}.   *)

MaxElems == 3    \* elements of the scanned sequence

\* the texts searched for, with their base64 form
Payloads ==
    {[v |-> <<"M">>, b64 |-> <<"T", "Q", "=", "=">>],
     [v |-> <<"1">>, b64 |-> <<"M", "Q", "=", "=">>]}

SearchNames == {JStr(<<"M">>), JStr(<<"K">>), JInt(1)}

\* element i holds its name at n and its position at v
SearchElem(names, i) == JMap(<<<<<<"n">>, names[i]>>, <<<<"v">>, JInt(i)>>>>)

SearchList(names) == JList([i \in 1..Len(names) |-> SearchElem(names, i)])

\* where the sequence is and how the path reaches it: "bare" the root is the
\* sequence and the path starts at the accessor; "sub" the root holds it at
\* a and the path writes a(...); "sep" the same root, the path writes
\* a.(...); "absent" the root holds it at b and the path writes a(...)
SearchForms == {"bare", "sub", "sep", "absent"}

SearchRoot(form, names) ==
    CASE form = "bare"   -> SearchList(names)
      [] form = "absent" -> JMap(<<<<<<"b">>, SearchList(names)>>>>)
      [] OTHER           -> JMap(<<<<<<"a">>, SearchList(names)>>>>)

\* the path as written; rest: the key v follows the accessor
SearchKey(g, sep) ==
    (CASE g.form = "bare" -> <<>>
       [] g.form = "sep"  -> <<"a", sep>>
       [] OTHER           -> <<"a">>)
        \o <<arrayOpener, "n", "=">> \o g.payload.b64 \o <<arrayCloser>>
        \o (IF g.rest THEN <<sep, "v">> ELSE <<>>)

SearchGiven ==
    [form : SearchForms, payload : Payloads, rest : BOOLEAN,
     names : UNION {[1..n -> SearchNames] : n \in 1..MaxElems}]

InitSearch ==
    /\ given \in SearchGiven
    /\ separator \in {".", "_"}
    /\ key = SearchKey(given, separator)
    /\ data = SearchRoot(given.form, given.names)
    /\ field_type = "str"
    /\ rules = NoRules
    /\ nagios = NagiosHelper
    /\ result = Unset
    /\ pc = "get"

SpecSearch == InitSearch /\ [][NextGet]_vars

\* the string form of a name: the text itself, the digits of a number
StringForm(x) == IF x.t = "str" THEN x.s ELSE NatToStr(x.n)

\* the positions of the elements whose name has the string form searched for
Matches == {i \in 1..Len(given.names) : StringForm(given.names[i]) = given.payload.v}

\* what the search accessor addresses: the first matching element of the
\* sequence (at subKey, or the current node), or its v; NotFound when the
\* subKey is absent or no element matches
SearchAddressed ==
    IF given.form = "absent" \/ Matches = {} THEN NotFound
    ELSE IF given.rest THEN JInt(Min(Matches))
    ELSE SearchElem(given.names, Min(Matches))

\* C11: a search accessor 'subKey(name=base64(v))' scans the value at subKey
\* when subKey is non-empty and present, and the current node when subKey is
\* empty; the first element whose name has the string form v is selected and
\* resolution goes on in it; NotFound when no element matches.
CE_C11 == pc = "got" => result = SearchAddressed

\* what holds of C11: the same when the accessor has no subKey of its own
EmptySubKey_C11 == pc = "got" /\ given.form \in {"bare", "sep"} => result = SearchAddressed

---------------------------------------------------------------------------
(* SpecRest: JsonHelper.get on paths in which the segment after an         *)
(* accessor follows with a separator or without one ('a(0)(1).b').         *)

\* a segment of a path, and whether the next segment follows its accessor
\* at once (glue), with no separator between
GluedSegments ==
    {s \in [k : PathKeys \cup {<<>>}, i : -1..MaxIndex, glue : BOOLEAN] :
        /\ s.k # <<>> \/ s.i # -1
        /\ s.glue => s.i # -1}

GluedPaths ==
    {p \in UNION {[1..n -> GluedSegments] : n \in 1..(MaxSegs + 1)} : ~p[Len(p)].glue}

RECURSIVE FormatGlued(_, _)
FormatGlued(segs, sep) ==
    IF Len(segs) = 1 THEN SegmentStr(segs[1])
    ELSE SegmentStr(segs[1]) \o (IF segs[1].glue THEN <<>> ELSE <<sep>>)
             \o FormatGlued(Tail(segs), sep)

\* {"a": [[5, {"b": 9}], {"b": 4, "a": [7, 8]}], "b": 3} and
\* [{"a": [5, {"b": 9}], "b": 3}, [{"b": 2}, 6]]: no node is empty or 0
RestTrees ==
    {JMap(<<<<<<"a">>, JList(<<JList(<<JInt(5), JMap(<<<<<<"b">>, JInt(9)>>>>)>>),
                               JMap(<<<<<<"b">>, JInt(4)>>,
                                      <<<<"a">>, JList(<<JInt(7), JInt(8)>>)>>>>)>>)>>,
            <<<<"b">>, JInt(3)>>>>),
     JList(<<JMap(<<<<<<"a">>, JList(<<JInt(5), JMap(<<<<<<"b">>, JInt(9)>>>>)>>)>>,
                    <<<<"b">>, JInt(3)>>>>),
             JList(<<JMap(<<<<<<"b">>, JInt(2)>>>>), JInt(6)>>)>>)}

InitRest ==
    /\ given \in GluedPaths
    /\ separator \in {".", "_"}
    /\ key = FormatGlued(given, separator)
    /\ data \in RestTrees
    /\ field_type = "str"
    /\ rules = NoRules
    /\ nagios = NagiosHelper
    /\ result = Unset
    /\ pc = "get"

SpecRest == InitRest /\ [][NextGet]_vars

\* an accessor of the path is followed by the next segment with no separator
SomeGlue == \E i \in 1..Len(given) : given[i].glue

\* C12: after an accessor is resolved the path resolved next is the text
\* after that accessor's own close-marker, less one separator when one
\* follows it; no later segment is dropped, so a path that addresses a node
\* resolves to it segment by segment, also when an accessor is followed by
\* an accessor or a key with no separator ('a(0)(1).b', '(0)x(1).y').
CE_C12 == pc = "got" /\ Addressed(data, given) # NotFound => result = Addressed(data, given)

\* what holds of C12: the same when a separator follows every accessor that
\* is not the end of the path
Separated_C12 ==
    pc = "got" /\ ~SomeGlue /\ Addressed(data, given) # NotFound =>
        result = Addressed(data, given)

---------------------------------------------------------------------------
(* SpecFetch: the entry point from the fetch on (lines 517-551): one       *)
(* urlopen, the except clauses or the rule pass, the message, the exit.    *)

\* what urlopen does: a response, or one of the exceptions the try names
FetchOutcomes == {"response", "HTTPError", "URLError"}

\* "HTTPError[%s], url:%s" and "URLError[%s], url:%s", filled in
HTTPErrorText == <<"HTTPError[", "404", "], url:", "http://h">>
URLErrorText  == <<"URLError[", "refused", "], url:", "http://h">>

exceptClausesSwapped(n, outcome) ==
    IF outcome = "HTTPError" THEN append_critical(n, HTTPErrorText, <<>>)
    ELSE append_unknown(n, URLErrorText, <<>>)

\* except HTTPError: append_unknown; except URLError: append_critical
exceptClauses(n, outcome) ==
    IF outcome = "HTTPError" THEN append_unknown(n, HTTPErrorText, <<>>)
    ELSE append_critical(n, URLErrorText, <<>>)

\* given holds what urlopen will do, the count of the calls of urlopen and
\* the rules of the run
FetchGiven == [family : {"fetch"}, outcome : FetchOutcomes, fetches : {0}, g : TierInputs]

InitFetch ==
    /\ given \in FetchGiven
    /\ rules = Build(given.g)
    /\ data \in {RunTree(v) : v \in RunValues}
    /\ field_type \in Modes
    /\ separator = "."
    /\ key = <<>>
    /\ nagios = NagiosHelper
    /\ result = Unset
    /\ pc = "fetch"

\* try: response = urlopen(req); except ...; else: the rule pass
Fetch ==
    /\ pc = "fetch"
    /\ given' = [given EXCEPT !.fetches = @ + 1]
    /\ IF given.outcome = "response"
           THEN /\ pc' = "checkWarning"
                /\ UNCHANGED nagios
       ELSE /\ nagios' = exceptClauses(nagios, given.outcome)
            /\ pc' = "print"
    /\ UNCHANGED <<data, separator, field_type, rules, key, result>>

\* exit(nagios.getCode())
Exit ==
    /\ pc = "done"
    /\ result' = [t |-> "exit", code |-> getCode(nagios), message |-> result.message]
    /\ pc' = "exited"
    /\ UNCHANGED <<data, separator, field_type, rules, nagios, key, given>>

NextFetch == Fetch \/ CheckWarning \/ CheckCritical \/ CheckMetrics \/ PrintMessage \/ Exit

SpecFetch == InitFetch /\ [][NextFetch]_vars

\* the run made one fetch and evaluated no rule: the texts hold what the
\* except clause wrote and nothing else, and the status printed is that of
\* the exit code
FailedFetchOnly ==
    /\ given.fetches = 1
    /\ nagios.status_message = <<>>
    /\ nagios.warning_message = <<>>
    /\ nagios.performance_data = <<>>
    /\ nagios.unknown_message \in {<<>>, HTTPErrorText}
    /\ nagios.critical_message \in {<<>>, URLErrorText}
    /\ Head(result.message) = message_prefixes[result.code + 1]

\* C13: when the fetch fails no rule is evaluated, no retry is made and the
\* run ends with a reported status whose exit code is the severity code: a
\* connectivity failure gives UNKNOWN and an HTTP error status CRITICAL.
CE_C13 ==
    pc = "exited" /\ given.outcome # "response" =>
        /\ FailedFetchOnly
        /\ result.code = IF given.outcome = "URLError" THEN UNKNOWN_CODE ELSE CRITICAL_CODE

\* C13 as amended: when the fetch fails no rule is evaluated, no retry is
\* made and the run ends with a reported status whose exit code is the
\* severity code: an HTTP error status (HTTPError) gives UNKNOWN and a
\* failure to connect (URLError) gives CRITICAL.
Thm_C13 ==
    pc = "exited" /\ given.outcome # "response" =>
        /\ FailedFetchOnly
        /\ result.code = IF given.outcome = "HTTPError" THEN UNKNOWN_CODE ELSE CRITICAL_CODE

\* an HTTP error ends in UNKNOWN though the rules given, had they been
\* evaluated, would have written critical text
Wit_C13 ==
    /\ pc = "exited"
    /\ given.outcome = "HTTPError"
    /\ given.g.tier = "critical"
    /\ given.g.e = <<Absent>>
    /\ result.code = UNKNOWN_CODE
    /\ nagios.critical_message = <<>>

---------------------------------------------------------------------------
(* SpecAbsent: checkThreshold on a key the tree does not hold *)

\* the tree holds the number at x; checkThreshold is called for m
InitAbsent ==
    /\ given \in [r : Ranges, v : Numbers]
    /\ key = RangeStr(given.r)
    /\ data = JMap(<<<<Absent, given.v>>>>)
    /\ field_type \in Modes
    /\ separator = "."
    /\ rules = NoRules
    /\ nagios = NagiosHelper
    /\ result = Unset
    /\ pc = "threshold"

SpecAbsent == InitAbsent /\ [][NextThreshold]_vars

\* checkThreshold returned an empty failure text and a success text
NoFailure ==
    /\ result.t = "pair"
    /\ result.failure = <<>>
    /\ result.success # <<>>

\* C14: a threshold rule whose key is NotFound never produces failure text:
\* for every well-formed range, inverted or not, checkThreshold returns an
\* empty failure text and a success text.
CE_C14 == pc = "thresholdDone" => NoFailure

\* what holds of C14: the same in the verbatim mode, the default
Verbatim_C14 == pc = "thresholdDone" /\ field_type = "str" => NoFailure

===========================================================================
